---- MODULE Spec2Model ----
(***************************************************************************)
(* Delivery-order pipeline of the storefront:                              *)
(*   - PATCH /api/orders/[id]  (app/api/orders/[id]/route.ts): the order   *)
(*     update, the confirmation trigger and its detached background task;  *)
(*   - POST /api/lalamove/order (app/api/lalamove/[action]/route.ts): the   *)
(*     order handler with its upstream calls GET /quotations/{id} and      *)
(*     POST /orders, and signPayload, the request signature;               *)
(*   - PATCH /api/orders/bulk (app/api/orders/bulk/route.ts): one status   *)
(*     for a list of orders;                                               *)
(*   - useAddressAutocomplete (src/hooks/useAddressAutocomplete.ts): the   *)
(*     debounced address search of the checkout form.                      *)
(* One persisted order row is modelled; requests, tasks and handler        *)
(* invocations interleave at the awaits of the source.                     *)
(***************************************************************************)
EXTENDS Integers, Sequences, FiniteSets, TLC

(***************************************************************************)
(* Bounds of the model.                                                    *)
(***************************************************************************)
\* number of PATCH /api/orders/[id] requests issued on the order
MaxRequests == 2

(***************************************************************************)
(* JavaScript values.                                                      *)
(***************************************************************************)
Null == "null"
Undef == "undefined"
\* JS truthiness of a string-valued field (null, undefined and "" are falsy)
Truthy(x) == x \notin {Null, Undef, ""}

(***************************************************************************)
(* Phone numbers: strings as sequences of one-character strings.           *)
(***************************************************************************)
Digits == {"0", "1", "2", "3", "4", "5", "6", "7", "8", "9"}

RECURSIVE StripNonDigits(_)
\* phone.replace(/\D/g, '')
StripNonDigits(s) ==
  IF s = <<>> THEN <<>>
  ELSE IF Head(s) \in Digits THEN <<Head(s)>> \o StripNonDigits(Tail(s))
       ELSE StripNonDigits(Tail(s))

StartsWith(s, p) == Len(s) >= Len(p) /\ SubSeq(s, 1, Len(p)) = p

\* variant that prefixes the country code whatever the digits start with
PrefixCountryCodeAlways(digits) == <<"+", "6", "3">> \o digits

\* variant that keeps the trunk prefix
PrefixCountryCodeKeepsZero(digits) ==
  IF StartsWith(digits, <<"6", "3">>) THEN <<"+">> \o digits
  ELSE <<"+", "6", "3">> \o digits

\* the shared tail of the three normalizers: digits -> "+63..." form
PrefixCountryCode(digits) ==
  IF StartsWith(digits, <<"6", "3">>) THEN <<"+">> \o digits
  ELSE IF StartsWith(digits, <<"0">>) THEN <<"+", "6", "3">> \o Tail(digits)
  ELSE IF StartsWith(digits, <<"9">>) THEN <<"+", "6", "3">> \o digits
  ELSE <<"+", "6", "3">> \o digits

\* normalizePhone of the order handler and of createLalamoveOrder
normalizePhone(phone) ==
  IF phone = <<>> THEN phone
  ELSE LET digits == StripNonDigits(phone)
       IN IF digits = <<>> THEN phone ELSE PrefixCountryCode(digits)

RECURSIVE TrimLeft(_)
TrimLeft(s) == IF s # <<>> /\ Head(s) = " " THEN TrimLeft(Tail(s)) ELSE s
RECURSIVE TrimRight(_)
TrimRight(s) ==
  IF s # <<>> /\ s[Len(s)] = " " THEN TrimRight(SubSeq(s, 1, Len(s) - 1)) ELSE s
Trim(s) == TrimRight(TrimLeft(s))

\* normalizePhoneNumber of the PATCH handler; <<>> stands for undefined
normalizePhoneNumber(phone) ==
  IF phone = <<>> THEN <<>>
  ELSE LET trimmed == Trim(phone)
       IN IF trimmed = <<>> THEN <<>>
          ELSE LET digits == StripNonDigits(trimmed)
               IN IF digits = <<>> THEN <<>> ELSE PrefixCountryCode(digits)

(***************************************************************************)
(* Timestamps.  An ISO string is modelled by the milliseconds its Date     *)
(* parses to; "garbage" is a non-empty string Date cannot parse (NaN);     *)
(* "absent" is a missing field.                                            *)
(***************************************************************************)
Absent == [kind |-> "absent", ms |-> 0]
Iso(t) == [kind |-> "iso", ms |-> t]
Garbage == [kind |-> "garbage", ms |-> 0]
\* truthiness of the timestamp string
Present(ts) == ts.kind # "absent"
\* new Date(ts) is a valid date
ValidDate(ts) == ts.kind = "iso"

MsPerMinute == 1000 * 60
MsPerHour == 1000 * 60 * 60
\* tolerance of a past scheduleAt, in minutes
ScheduleToleranceMinutes == 10
\* threshold of the far-future warning, in hours
ScheduleWarnHours == 24

\* the handler's clock reading (new Date()) after the quotation fetch
Now == 100 * MsPerHour

Abs(x) == IF x < 0 THEN -x ELSE x


(***************************************************************************)
(* The persisted order row (orders table) and the PATCH request bodies.    *)
(***************************************************************************)
validStatuses ==
  {"pending", "confirmed", "preparing", "ready", "out_for_delivery",
   "completed", "cancelled"}

OrderId == "order-1"
CustomerName == "Ana"
\* contact_number as the customer typed it
ContactNumber == <<"0", "9", "1", "7">>

\* what `currentOrder?.field` / `data.field` read when no row came back
NoRow ==
  [status |-> Undef, service_type |-> Undef, lalamove_quotation_id |-> Undef,
   lalamove_order_id |-> Undef, lalamove_status |-> Undef,
   lalamove_tracking_url |-> Undef, customer_name |-> Undef,
   contact_number |-> <<>>]

\* a row of the orders table
OrderRow(st, service, q, lo) ==
  [status |-> st, service_type |-> service, lalamove_quotation_id |-> q,
   lalamove_order_id |-> lo,
   lalamove_status |-> IF lo = Null THEN Null ELSE "ASSIGNING_DRIVER",
   lalamove_tracking_url |-> IF lo = Null THEN Null ELSE "https://share/LM0",
   customer_name |-> CustomerName, contact_number |-> ContactNumber]

\* rows as checkout leaves them: pending; a delivery order carries its
\* quotation id, and a courier order id when checkout already created one
InitialRows ==
  {OrderRow("pending", "delivery", "Q1", Null),
   OrderRow("pending", "delivery", "Q1", "LM0"),
   OrderRow("pending", "pickup", Null, Null)}

\* request bodies of PATCH /api/orders/[id]: {status, lalamove_order_id,
\* lalamove_status, lalamove_tracking_url}, each possibly undefined
PatchBody(st, lo, ls, lt) ==
  [status |-> st, lalamove_order_id |-> lo, lalamove_status |-> ls,
   lalamove_tracking_url |-> lt]

PatchBodies ==
  {PatchBody(st, Undef, Undef, Undef) : st \in {"confirmed", "pending", "bogus"}}
  \cup {PatchBody(Undef, "LMX", "ON_GOING", "https://share/LMX")}

\* `updateData`: the fields of the body that are not undefined (lines 319-351)
UpdateFields(b) ==
  {f \in {"status", "lalamove_order_id", "lalamove_status", "lalamove_tracking_url"} :
     b[f] # Undef}

\* .update(updateData).eq('id', id): the row after the update
ApplyUpdate(row, b) ==
  [f \in DOMAIN row |-> IF f \in UpdateFields(b) THEN b[f] ELSE row[f]]

\* variant of the guard that does not look at lalamove_order_id
statusChangingToConfirmedNoIdCheck(status, currentOrder) ==
  /\ status = "confirmed"
  /\ currentOrder.status # "confirmed"
  /\ currentOrder.service_type = "delivery"
  /\ Truthy(currentOrder.lalamove_quotation_id)
\* variant that does not look at the current status
statusChangingToConfirmedNoStatusCheck(status, currentOrder) ==
  /\ status = "confirmed"
  /\ currentOrder.service_type = "delivery"
  /\ Truthy(currentOrder.lalamove_quotation_id)
  /\ ~Truthy(currentOrder.lalamove_order_id)

\* the guard of the confirmation trigger (lines 368-373)
statusChangingToConfirmed(status, currentOrder) ==
  /\ status = "confirmed"
  /\ currentOrder.status # "confirmed"
  /\ currentOrder.service_type = "delivery"
  /\ Truthy(currentOrder.lalamove_quotation_id)
  /\ ~Truthy(currentOrder.lalamove_order_id)

(***************************************************************************)
(* Store configuration and the order-handler request.                      *)
(***************************************************************************)
NaN == "NaN"
StorePhone == <<"6", "3", "2">>

ValidConfig ==
  [market |-> "PH", serviceType |-> "MOTORCYCLE", sandbox |-> TRUE,
   storeName |-> "Starrs", storePhone |-> StorePhone,
   storeAddress |-> "Main St", storeLatitude |-> "14.6",
   storeLongitude |-> "121.0"]

\* configurations a request body can carry
StoreConfigs ==
  {ValidConfig, [ValidConfig EXCEPT !.market = ""], [ValidConfig EXCEPT !.sandbox = FALSE]}

\* buildConfig of the lalamove route: null (FALSE here) when a field is missing
buildConfig(cfg) ==
  ~(\/ cfg.market = ""
    \/ cfg.serviceType = ""
    \/ cfg.storeName = ""
    \/ cfg.storePhone = <<>>
    \/ cfg.storeAddress = ""
    \/ cfg.storeLatitude = NaN
    \/ cfg.storeLongitude = NaN)

\* body of POST /api/lalamove/order
OrderRequest(q, name, phone, sStop, rStop, cfg, meta) ==
  [quotationId |-> q, recipientName |-> name, recipientPhone |-> phone,
   senderStopId |-> sStop, recipientStopId |-> rStop, config |-> cfg,
   metadata |-> meta]

NoRequest == OrderRequest(Undef, Undef, <<>>, Undef, Undef, ValidConfig, Undef)

\* the body createLalamoveOrder sends (lines 160-179): phones normalized once
\* more, no stop ids
createLalamoveOrderBody(quotationId, recipientName, recipientPhone, config, orderId) ==
  OrderRequest(quotationId, recipientName, normalizePhone(recipientPhone),
               Undef, Undef,
               [config EXCEPT !.storePhone = normalizePhone(config.storePhone)],
               orderId)

(***************************************************************************)
(* Upstream (courier aggregator) responses.                                *)
(***************************************************************************)
Stop(stopId, id) == [stopId |-> stopId, id |-> id]

StopLists ==
  {<<>>,
   <<Stop("S0", Undef)>>,
   <<Stop("S0", Undef), Stop("S1", Undef)>>,
   <<Stop(Undef, "I0"), Stop("S1", Undef)>>,
   <<Stop("S0", Undef), Stop(Undef, Undef)>>}

\* expiresAt relative to the handler's clock: just past, equal, ahead
ExpiryStamps == {Absent, Garbage, Iso(Now - 1), Iso(Now), Iso(Now + 5 * MsPerMinute)}

\* scheduleAt relative to the handler's clock
ScheduleStamps ==
  {Absent, Garbage,
   Iso(Now - 15 * MsPerMinute),
   Iso(Now - ScheduleToleranceMinutes * MsPerMinute - 1),
   Iso(Now - ScheduleToleranceMinutes * MsPerMinute),
   Iso(Now - 5 * MsPerMinute),
   Iso(Now - 1),
   Iso(Now),
   Iso(Now + MsPerHour),
   Iso(Now + ScheduleWarnHours * MsPerHour + 1)}

Quotation(e, s, stops) == [expiresAt |-> e, scheduleAt |-> s, stops |-> stops]
NoQuotation == Quotation(Absent, Absent, <<>>)
Quotations ==
  {Quotation(e, s, st) : e \in ExpiryStamps, s \in ScheduleStamps, st \in StopLists}

\* kinds of upstream outcome: a 2xx JSON body, a non-2xx status, a 2xx body
\* that is not JSON, and a fetch that rejects
UpstreamErrorStatuses == {404, 503}

QuoteResponse(kind, status, quotation) ==
  [kind |-> kind, status |-> status, quotation |-> quotation]
NoQuoteResponse == QuoteResponse("none", 0, NoQuotation)

\* the answers GET /quotations/{id} can give when the upstream holds `quotation`
QuoteResponses(quotation) ==
  {QuoteResponse("ok", 200, quotation),
   QuoteResponse("not_json", 200, NoQuotation),
   QuoteResponse("network_error", 0, NoQuotation)}
  \cup {QuoteResponse("http_error", s, NoQuotation) : s \in UpstreamErrorStatuses}

\* the courier order id the upstream assigns to its n-th order
CourierId(n) == "LM" \o ToString(n)

\* data of a 2xx answer to POST /orders; the upstream may omit orderId
OrderData(orderId) ==
  [orderId |-> orderId, status |-> "ASSIGNING_DRIVER",
   shareLink |-> IF orderId = Undef THEN Undef ELSE "https://share/" \o orderId,
   driverId |-> Undef]
NoOrderData ==
  [orderId |-> Undef, status |-> Undef, shareLink |-> Undef, driverId |-> Undef]

OrderResponses(n) ==
  {[kind |-> "ok", status |-> 200, data |-> OrderData(CourierId(n))],
   [kind |-> "ok", status |-> 200, data |-> OrderData(Undef)],
   [kind |-> "not_json", status |-> 200, data |-> NoOrderData],
   [kind |-> "network_error", status |-> 0, data |-> NoOrderData]}
  \cup {[kind |-> "http_error", status |-> s, data |-> NoOrderData] :
          s \in UpstreamErrorStatuses}


(***************************************************************************)
(* The order handler's checks (handleOrder), as the code computes them.    *)
(***************************************************************************)
\* variant with the comparison the wrong way round
QuotationExpiredReversed(now, quotation) ==
  /\ Present(quotation.expiresAt)
  /\ ValidDate(quotation.expiresAt)
  /\ now < quotation.expiresAt.ms

\* lines 268-281: `if (expiresAt) { if (now > new Date(expiresAt)) ... }`;
\* a comparison with an invalid date is false
QuotationExpired(now, quotation) ==
  /\ Present(quotation.expiresAt)
  /\ ValidDate(quotation.expiresAt)
  /\ now > quotation.expiresAt.ms

\* lines 293-295: scheduleTime < now and minutesPast = |timeDiff| / 60000
SchedulePast(now, quotation) ==
  ValidDate(quotation.scheduleAt) /\ quotation.scheduleAt.ms < now

\* variant that leaves the boundary out
WithinToleranceStrict(now, quotation) ==
  Abs(quotation.scheduleAt.ms - now) < ScheduleToleranceMinutes * MsPerMinute
\* variant that takes the tolerance in hours
WithinToleranceHours(now, quotation) ==
  Abs(quotation.scheduleAt.ms - now) <= ScheduleToleranceMinutes * MsPerHour

WithinTolerance(now, quotation) ==
  Abs(quotation.scheduleAt.ms - now) <= ScheduleToleranceMinutes * MsPerMinute

\* lines 284-337: "none" (no scheduleAt), "immediate" (past, within the
\* tolerance), "stale" (past, beyond it: rejected), "scheduled" (otherwise)
ScheduleCheck(now, quotation) ==
  IF ~Present(quotation.scheduleAt) THEN "none"
  ELSE IF SchedulePast(now, quotation)
       THEN IF WithinTolerance(now, quotation) THEN "immediate" ELSE "stale"
       ELSE "scheduled"

\* line 330 / 303: shouldUseScheduleAt
shouldUseScheduleAt(now, quotation) == ScheduleCheck(now, quotation) = "scheduled"

\* lines 342-343: stops[i]?.stopId || stops[i]?.id || ''
StopIdAt(stops, i) ==
  IF Len(stops) < i THEN ""
  ELSE IF Truthy(stops[i].stopId) THEN stops[i].stopId
  ELSE IF Truthy(stops[i].id) THEN stops[i].id
  ELSE ""

\* String(body.x || '')
StringOr(x) == IF Truthy(x) THEN x ELSE ""

\* lines 366-391: the /orders payload; scheduleAt is Absent when the field
\* is not put in the payload
orderPayload(req, senderStopId, recipientStopId, scheduleAt) ==
  [quotationId |-> req.quotationId,
   senderStopId |-> senderStopId,
   senderName |-> req.config.storeName,
   senderPhone |-> normalizePhone(req.config.storePhone),
   recipientStopId |-> recipientStopId,
   recipientName |-> req.recipientName,
   recipientPhone |-> normalizePhone(req.recipientPhone),
   isPODEnabled |-> TRUE,
   metadata |-> StringOr(req.metadata),
   scheduleAt |-> scheduleAt]

NoPayload ==
  [quotationId |-> Undef, senderStopId |-> Undef, senderName |-> Undef,
   senderPhone |-> <<>>, recipientStopId |-> Undef, recipientName |-> Undef,
   recipientPhone |-> <<>>, isPODEnabled |-> FALSE, metadata |-> Undef,
   scheduleAt |-> Absent]

\* an upstream call as issued by proxyRequest
UpstreamCall(method, path, payload) ==
  [method |-> method, path |-> path, payload |-> payload]

\* a handler response: respond(body, status)
RespondError(status, error) ==
  [status |-> status, error |-> error, data |-> NoOrderData]
RespondOrder(d) == [status |-> 200, error |-> "", data |-> d]
\* an exception escaping the route: the framework's 500, no JSON body
Unhandled == [status |-> 500, error |-> "unhandled exception", data |-> NoOrderData]
NoResponse == [status |-> 0, error |-> "", data |-> NoOrderData]

\* variant without the expiration check
QuotationVerdictNoExpiry(now, quotation) ==
  IF ScheduleCheck(now, quotation) = "stale"
  THEN RespondError(400, "Quotation schedule time is too far in the past")
  ELSE IF StopIdAt(quotation.stops, 1) = "" \/ StopIdAt(quotation.stops, 2) = ""
  THEN RespondError(500, "Failed to extract stop IDs from quotation")
  ELSE NoResponse
\* variant without the stop-id check
QuotationVerdictNoStopIds(now, quotation) ==
  IF QuotationExpired(now, quotation)
  THEN RespondError(400, "Quotation has expired")
  ELSE IF ScheduleCheck(now, quotation) = "stale"
  THEN RespondError(400, "Quotation schedule time is too far in the past")
  ELSE NoResponse

\* lines 264-354 after a 2xx JSON quotation: the error response, or
\* NoResponse when every check passes
QuotationVerdict(now, quotation) ==
  IF QuotationExpired(now, quotation)
  THEN RespondError(400, "Quotation has expired")
  ELSE IF ScheduleCheck(now, quotation) = "stale"
  THEN RespondError(400, "Quotation schedule time is too far in the past")
  ELSE IF StopIdAt(quotation.stops, 1) = "" \/ StopIdAt(quotation.stops, 2) = ""
  THEN RespondError(500, "Failed to extract stop IDs from quotation")
  ELSE NoResponse

(***************************************************************************)
(* The quote handler (handleQuote) and its request.                        *)
(***************************************************************************)
\* numeric literals a JSON body can carry for a coordinate, as text or as a
\* number; "Infinity" is also what a number beyond the double range parses to
NumericLiterals == {"0", "14.5", "121.0", "Infinity", "-Infinity"}

\* Number(v) for a body field v: undefined -> NaN, null -> 0, '' -> 0,
\* numeric text -> its value, any other text -> NaN
ToNumber(v) ==
  IF v = Undef THEN NaN
  ELSE IF v = Null \/ v = "" THEN "0"
  ELSE IF v \in NumericLiterals THEN v
  ELSE NaN

\* Number.isFinite, for comparison with the test the code makes
IsFinite(n) == n \notin {NaN, "Infinity", "-Infinity"}

\* line 180: Number.isNaN(deliveryLat)
CoordinateRejected(n) == n = NaN

\* the table of getLanguageForMarket
LanguageMap ==
  [HK |-> "en_HK", SG |-> "en_SG", TH |-> "th_TH", PH |-> "en_PH",
   TW |-> "zh_TW", MY |-> "ms_MY", VN |-> "vi_VN"]

\* property names every object literal inherits from Object.prototype
ObjectPrototypeKeys ==
  {"constructor", "toString", "valueOf", "hasOwnProperty", "isPrototypeOf",
   "propertyIsEnumerable", "toLocaleString", "__proto__"}

\* what map[key] reads for an inherited name: a function (or the prototype
\* object), which is truthy and is not a language tag
InheritedValue == "[inherited]"

\* lines 52-63: map[market] || 'en_US'
getLanguageForMarket(market) ==
  IF market \in DOMAIN LanguageMap THEN LanguageMap[market]
  ELSE IF market \in ObjectPrototypeKeys THEN InheritedValue
  ELSE "en_US"

\* body of POST /api/lalamove/quote
QuoteRequest(address, lat, lng, cfg) ==
  [deliveryAddress |-> address, deliveryLat |-> lat, deliveryLng |-> lng,
   config |-> cfg]

NoQuoteRequest == QuoteRequest(Undef, Undef, Undef, ValidConfig)

\* variant that lets an empty address through
MissingDeliveryFieldsNoAddress(req) ==
  \/ CoordinateRejected(ToNumber(req.deliveryLat))
  \/ CoordinateRejected(ToNumber(req.deliveryLng))

\* lines 176-180: the validation of handleQuote
MissingDeliveryFields(req) ==
  \/ StringOr(req.deliveryAddress) = ""
  \/ CoordinateRejected(ToNumber(req.deliveryLat))
  \/ CoordinateRejected(ToNumber(req.deliveryLng))

\* lines 65-85: createStops
createStops(config, deliveryAddress, lat, lng) ==
  <<[coordinates |-> [lat |-> config.storeLatitude, lng |-> config.storeLongitude],
     address |-> config.storeAddress],
    [coordinates |-> [lat |-> lat, lng |-> lng], address |-> deliveryAddress]>>

\* lines 184-202: quotePayload
quotePayload(req) ==
  [serviceType |-> req.config.serviceType,
   language |-> getLanguageForMarket(req.config.market),
   stops |-> createStops(req.config, StringOr(req.deliveryAddress),
                         ToNumber(req.deliveryLat), ToNumber(req.deliveryLng)),
   item |-> [quantity |-> "1", weight |-> "LESS_THAN_3_KG",
             categories |-> <<"FOOD_DELIVERY">>,
             handlingInstructions |-> <<"KEEP_UPRIGHT">>]]

\* data of a 2xx answer to POST /quotations, and the handler's result
QuoteData(quotationId) ==
  [quotationId |-> quotationId, price |-> "89", currency |-> "PHP",
   expiresAt |-> Iso(Now + 5 * MsPerMinute)]
NoQuoteData ==
  [quotationId |-> Undef, price |-> Undef, currency |-> Undef, expiresAt |-> Absent]

\* statuses of a non-2xx answer: one the fetch does not follow as a redirect,
\* a client error and two server errors
NonOkStatuses == {300, 404, 422, 500, 503}

\* raw bodies of a non-2xx answer
RawBodies == {"", "{\"errors\":[{\"id\":\"ERR\"}]}"}

\* the answers POST /quotations can give
QuotationPostResponses ==
  {[kind |-> "ok", status |-> 201, raw |-> "json", data |-> QuoteData("Q1")],
   [kind |-> "ok", status |-> 201, raw |-> "json", data |-> NoQuoteData],
   [kind |-> "not_json", status |-> 200, raw |-> "<html>", data |-> NoQuoteData],
   [kind |-> "network_error", status |-> 0, raw |-> "", data |-> NoQuoteData]}
  \cup {[kind |-> "http_error", status |-> st, raw |-> raw, data |-> NoQuoteData] :
          st \in NonOkStatuses, raw \in RawBodies}

\* lines 120-132: what proxyRequest returns for a non-2xx answer
proxyError(resp) ==
  [error |-> IF resp.raw # "" THEN resp.raw ELSE "Lalamove upstream error",
   status |-> resp.status]

\* lines 206 and 404: result.status || 500
respondStatus(result) == IF result.status # 0 THEN result.status ELSE 500

\* a handler response of the quote handler
RespondQuoteError(status, error) ==
  [status |-> status, error |-> error, data |-> NoQuoteData]
RespondQuote(d) == [status |-> 200, error |-> "", data |-> d]
QuoteUnhandled == RespondQuoteError(500, "unhandled exception")
NoQuoteHandlerResponse == RespondQuoteError(0, "")

(***************************************************************************)
(* The upstream client (proxyRequest): what is signed and what is sent.    *)
(* A URL and a path are sequences of segments; a body is the sequence of   *)
(* the payloads serialized into it (empty for the empty string).           *)
(***************************************************************************)
API_BASE_URL == <<"https://rest.lalamove.com", "/v3">>
API_SANDBOX_URL == <<"https://rest.sandbox.lalamove.com", "/v3">>

\* lines 87-90
buildUpstreamUrl(path, sandbox) ==
  (IF sandbox THEN API_SANDBOX_URL ELSE API_BASE_URL) \o path

\* the path component of a URL: what follows the origin
UrlPath(url) == Tail(url)

\* variant that signs the path as the caller gave it
signaturePathUnversioned(path) == path

\* line 104: `/v3${path}`
signaturePath(path) == <<"/v3">> \o path

\* line 102: method === 'GET' ? '' : JSON.stringify(payload)
bodyString(method, payload) == IF method = "GET" THEN <<>> ELSE <<payload>>

\* lines 102-118: the message signPayload is given and the request fetch sends
proxyRequestWire(call, sandbox) ==
  [signed |-> [method |-> call.method,
               path |-> signaturePath(call.path),
               body |-> bodyString(call.method, call.payload)],
   sent |-> [method |-> call.method,
             url |-> buildUpstreamUrl(call.path, sandbox),
             body |-> IF call.method # "GET"
                      THEN bodyString(call.method, call.payload) ELSE <<>>]]

(***************************************************************************)
(* State.                                                                  *)
(***************************************************************************)
Reqs == 1 .. MaxRequests
\* handler invocations: one per background task (keyed by its request) and
\* invocation 0, a direct POST /api/lalamove/order
Direct == 0
Callers == {Direct} \cup Reqs

VARIABLES
  db,            \* the persisted order row
  env,           \* process environment: which keys are set
  pc,            \* PATCH request r: position in the handler
  body,          \* PATCH request r: its JSON body
  cur,           \* PATCH request r: `currentOrder` as read
  trig,          \* PATCH request r: statusChangingToConfirmed
  data,          \* PATCH request r: row returned by the update
  response,      \* PATCH request r: the HTTP response
  taskPc,        \* background task of request r
  hPc,           \* order-handler invocation c: position
  hBody,         \* order-handler invocation c: request body
  hCalls,        \* order-handler invocation c: upstream calls issued, in order
  hResp,         \* order-handler invocation c: its response
  hQuote,        \* order-handler invocation c: `quoteResult`, the answer to its GET
  hNow,          \* order-handler invocation c: `now`, its clock reading
  upstreamQuote, \* the quotation the upstream holds for the order's quotation id
  courierOrders, \* number of courier orders the upstream has created
  qPc,           \* quote-handler invocation: position
  qBody,         \* quote-handler invocation: request body
  qCalls,        \* quote-handler invocation: upstream calls issued, in order
  qResp,         \* quote-handler invocation: its response
  phoneIn,       \* normalizePhone: the string given
  phoneOut,      \* normalizePhone: the results of its successive applications
  chainOut,      \* the phones of the /orders payload on the confirmation path
  signIn,        \* signPayload: the arguments of two signing operations
  signOut,       \* signPayload: their signatures
  bulkPc,        \* PATCH /api/orders/bulk: position in the handler
  bulkBody,      \* PATCH /api/orders/bulk: its JSON body
  bulkResp,      \* PATCH /api/orders/bulk: status of its response
  hkClock,       \* autocomplete hook: time elapsed, in ms
  hkQuery,       \* autocomplete hook: the `query` prop
  hkChanges,     \* autocomplete hook: number of query changes so far
  hkTimer,       \* autocomplete hook: the debounce timer (its query and deadline)
  hkReqs,        \* autocomplete hook: the search requests issued, in order
  hkSuggest      \* autocomplete hook: the `suggestions` state

vars ==
  <<db, env, pc, body, cur, trig, data, response, taskPc,
    hPc, hBody, hCalls, hResp, hQuote, hNow, upstreamQuote, courierOrders,
    qPc, qBody, qCalls, qResp, phoneIn, phoneOut, chainOut,
    signIn, signOut, bulkPc, bulkBody, bulkResp,
    hkClock, hkQuery, hkChanges, hkTimer, hkReqs, hkSuggest>>

patchVars == <<pc, body, cur, trig, data, response>>
handlerVars == <<hPc, hBody, hCalls, hResp, hQuote, hNow, upstreamQuote, courierOrders>>
quoteVars == <<qPc, qBody, qCalls, qResp>>
phoneVars == <<phoneIn, phoneOut>>
auxVars ==
  <<chainOut, signIn, signOut, bulkPc, bulkBody, bulkResp,
    hkClock, hkQuery, hkChanges, hkTimer, hkReqs, hkSuggest>>

NoBody == PatchBody(Undef, Undef, Undef, Undef)
NoPatchResponse == [code |-> 0, order |-> NoRow]

\* nothing has been requested yet
InitIdle ==
  /\ pc = [r \in Reqs |-> "idle"]
  /\ body = [r \in Reqs |-> NoBody]
  /\ cur = [r \in Reqs |-> NoRow]
  /\ trig = [r \in Reqs |-> FALSE]
  /\ data = [r \in Reqs |-> NoRow]
  /\ response = [r \in Reqs |-> NoPatchResponse]
  /\ taskPc = [r \in Reqs |-> "none"]
  /\ hPc = [c \in Callers |-> "idle"]
  /\ hBody = [c \in Callers |-> NoRequest]
  /\ hCalls = [c \in Callers |-> <<>>]
  /\ hResp = [c \in Callers |-> NoResponse]
  /\ hQuote = [c \in Callers |-> NoQuoteResponse]
  /\ hNow = [c \in Callers |-> 0]
  /\ courierOrders = 0
  /\ qPc = "idle"
  /\ qBody = NoQuoteRequest
  /\ qCalls = <<>>
  /\ qResp = NoQuoteHandlerResponse

\* normalizePhone has not been given anything
PhoneIdle == phoneIn = <<>> /\ phoneOut = <<>>

\* the confirmation path has not built a payload
NoChain ==
  [state |-> "none", contact |-> <<>>, store |-> <<>>,
   recipient |-> <<>>, sender |-> <<>>]
ChainIdle == chainOut = NoChain

\* signPayload has not been called
SignIdle == signIn = <<>> /\ signOut = <<>>

\* no bulk request has been made
BulkIdle ==
  /\ bulkPc = "idle"
  /\ bulkBody = [ids |-> [kind |-> "absent", items |-> <<>>], status |-> Undef]
  /\ bulkResp = 0

\* the hook is mounted with an empty query: no timer, no request
NoTimer == [armed |-> FALSE, query |-> <<>>, at |-> 0]
HookIdle ==
  /\ hkClock = 0
  /\ hkQuery = <<>>
  /\ hkChanges = 0
  /\ hkTimer = NoTimer
  /\ hkReqs = <<>>
  /\ hkSuggest = [by |-> 0, cleared |-> TRUE]

AuxIdle == ChainIdle /\ SignIdle /\ BulkIdle /\ HookIdle

(***************************************************************************)
(* PATCH /api/orders/[id]                                                  *)
(***************************************************************************)
\* lines 308-358: parse the body, validate, build updateData; then the read
\* of the current order is issued
PatchStart(r, b) ==
  /\ pc[r] = "idle"
  /\ \A q \in Reqs : q < r => pc[q] # "idle"
  /\ body' = [body EXCEPT ![r] = b]
  /\ IF (b.status # Undef /\ b.status \notin validStatuses) \/ UpdateFields(b) = {}
     THEN /\ pc' = [pc EXCEPT ![r] = "done"]
          /\ response' = [response EXCEPT ![r] = [code |-> 400, order |-> NoRow]]
     ELSE /\ pc' = [pc EXCEPT ![r] = "read"]
          /\ UNCHANGED response
  /\ UNCHANGED <<db, env, auxVars, quoteVars, phoneVars, cur, trig, data, taskPc, handlerVars>>

\* lines 361-373: the read returns (its error is not inspected: a failed
\* read leaves currentOrder null) and the guard is evaluated
PatchRead(r, readOk) ==
  /\ pc[r] = "read"
  /\ LET currentOrder == IF readOk THEN db ELSE NoRow
     IN /\ cur' = [cur EXCEPT ![r] = currentOrder]
        /\ trig' = [trig EXCEPT ![r] =
                      statusChangingToConfirmed(body[r].status, currentOrder)]
  /\ pc' = [pc EXCEPT ![r] = "update"]
  /\ UNCHANGED <<db, env, auxVars, quoteVars, phoneVars, body, data, response, taskPc, handlerVars>>

\* lines 376-385: the database applies the update, or answers with an error
PatchUpdate(r, updateOk) ==
  /\ pc[r] = "update"
  /\ IF updateOk
     THEN /\ db' = ApplyUpdate(db, body[r])
          /\ data' = [data EXCEPT ![r] = ApplyUpdate(db, body[r])]
          /\ pc' = [pc EXCEPT ![r] = "updated"]
     ELSE /\ pc' = [pc EXCEPT ![r] = "update_failed"]
          /\ UNCHANGED <<db, data>>
  /\ UNCHANGED <<env, auxVars, quoteVars, phoneVars, body, cur, trig, response, taskPc, handlerVars>>

\* variant that awaits the task: it starts it, and answers (from the row as
\* it then is) only once the task has ended
PatchTailAwaiting(r) ==
  /\ pc[r] \in {"updated", "update_failed"}
  /\ IF pc[r] = "update_failed"
     THEN /\ response' = [response EXCEPT ![r] = [code |-> 500, order |-> NoRow]]
          /\ pc' = [pc EXCEPT ![r] = "done"]
          /\ UNCHANGED taskPc
     ELSE IF trig[r] /\ taskPc[r] = "none"
     THEN /\ taskPc' = [taskPc EXCEPT ![r] = "settings"]
          /\ UNCHANGED <<pc, response>>
     ELSE /\ taskPc[r] \in {"none", "failed", "persisted"}
          /\ response' = [response EXCEPT ![r] = [code |-> 200, order |-> db]]
          /\ pc' = [pc EXCEPT ![r] = "done"]
          /\ UNCHANGED taskPc
  /\ UNCHANGED <<db, env, auxVars, quoteVars, phoneVars, body, cur, trig, data, handlerVars>>

\* lines 387-486: the continuation after the update: the error response, or
\* the detached task is started (it runs up to its first await) and the
\* response is built from the row the update returned
PatchTail(r) ==
  /\ pc[r] \in {"updated", "update_failed"}
  /\ pc' = [pc EXCEPT ![r] = "done"]
  /\ IF pc[r] = "update_failed"
     THEN /\ response' = [response EXCEPT ![r] = [code |-> 500, order |-> NoRow]]
          /\ UNCHANGED taskPc
     ELSE /\ response' = [response EXCEPT ![r] = [code |-> 200, order |-> data[r]]]
          /\ taskPc' = [taskPc EXCEPT ![r] = IF trig[r] THEN "settings" ELSE @]
  /\ UNCHANGED <<db, env, auxVars, quoteVars, phoneVars, body, cur, trig, data, handlerVars>>

(***************************************************************************)
(* The detached background task (lines 405-443) and createLalamoveOrder.   *)
(***************************************************************************)
\* variant without the fallback to the raw contact_number
TaskRecipientPhoneNoFallback(row) == normalizePhoneNumber(row.contact_number)

\* line 411: normalizePhoneNumber(data.contact_number) || data.contact_number
TaskRecipientPhone(row) ==
  IF normalizePhoneNumber(row.contact_number) # <<>>
  THEN normalizePhoneNumber(row.contact_number)
  ELSE row.contact_number

\* lines 407-419 and 94-179: getSiteSettings returns (null on error),
\* buildLalamoveConfig yields a configuration or null, and createLalamoveOrder
\* either throws on the missing key (caught: null) or sends POST /order
TaskSettings(r, settingsOk, configOk, config) ==
  /\ taskPc[r] = "settings"
  /\ IF settingsOk /\ configOk /\ Truthy(data[r].lalamove_quotation_id) /\ env.anonKey
     THEN /\ taskPc' = [taskPc EXCEPT ![r] = "awaitHandler"]
          /\ hPc' = [hPc EXCEPT ![r] = "sent"]
          /\ hBody' = [hBody EXCEPT ![r] =
                         createLalamoveOrderBody(data[r].lalamove_quotation_id,
                                                 data[r].customer_name,
                                                 TaskRecipientPhone(data[r]),
                                                 config, OrderId)]
     ELSE /\ taskPc' = [taskPc EXCEPT ![r] = "failed"]
          /\ UNCHANGED <<hPc, hBody>>
  /\ UNCHANGED <<db, env, auxVars, quoteVars, phoneVars, patchVars, hCalls, hResp, hQuote, hNow, upstreamQuote, courierOrders>>

\* line 160: the fetch rejects (the handler is not reached); caught at 193
TaskFetchFails(r) ==
  /\ taskPc[r] = "awaitHandler"
  /\ hPc[r] = "sent"
  /\ hPc' = [hPc EXCEPT ![r] = "unreached"]
  /\ taskPc' = [taskPc EXCEPT ![r] = "failed"]
  /\ UNCHANGED <<db, env, auxVars, quoteVars, phoneVars, patchVars, hBody, hCalls, hResp, hQuote, hNow, upstreamQuote, courierOrders>>

\* lines 181-196 and 421-436: the handler's response arrives; a non-2xx
\* response throws (caught: null, a warning), a 2xx one issues the update
TaskHandlerResponse(r) ==
  /\ taskPc[r] = "awaitHandler"
  /\ hPc[r] = "done"
  /\ taskPc' = [taskPc EXCEPT ![r] =
                  IF hResp[r].status \in 200 .. 299 THEN "write" ELSE "failed"]
  /\ UNCHANGED <<db, env, auxVars, quoteVars, phoneVars, patchVars, handlerVars>>

\* variant that also moves the order on
TaskWriteFieldsWithStatus(d) == PatchBody("out_for_delivery", d.orderId, d.status, d.shareLink)
\* variant that forgets the tracking link
TaskWriteFieldsNoLink(d) == PatchBody(Undef, d.orderId, d.status, Undef)

\* lines 426-430: the three courier fields of the update (a field whose
\* value is undefined is not part of the serialized update)
TaskWriteFields(d) == PatchBody(Undef, d.orderId, d.status, d.shareLink)

\* lines 423-431: the update by id lands

TaskWrite(r) ==
  /\ taskPc[r] = "write"
  /\ db' = ApplyUpdate(db, TaskWriteFields(hResp[r].data))
  /\ taskPc' = [taskPc EXCEPT ![r] = "persisted"]
  /\ UNCHANGED <<env, auxVars, quoteVars, phoneVars, patchVars, handlerVars>>

(***************************************************************************)
(* POST /api/lalamove/order: POST (lines 421-447) and handleOrder.         *)
(***************************************************************************)
\* variant that does not require the recipient's phone
MissingOrderFieldsNoPhone(req) ==
  \/ StringOr(req.quotationId) = ""
  \/ StringOr(req.recipientName) = ""

\* line 225: the three required fields
MissingOrderFields(req) ==
  \/ StringOr(req.quotationId) = ""
  \/ StringOr(req.recipientName) = ""
  \/ req.recipientPhone = <<>>
\* variant that fetches only when both stop ids are missing
NeedsQuotationBothAbsent(req) ==
  ~Truthy(req.senderStopId) /\ ~Truthy(req.recipientStopId)

\* line 251: a stop id is missing from the request
NeedsQuotation(req) == ~Truthy(req.senderStopId) \/ ~Truthy(req.recipientStopId)

\* the request reaches the route: buildConfig, input validation, then either
\* GET /quotations/{id} or, with both stop ids supplied, POST /orders is issued
\* (proxyRequest throws on a missing key: caught at 355 around the GET,
\* escaping the handler around the POST)
HandlerReceive(c) ==
  /\ hPc[c] = "sent"
  /\ LET req == hBody[c]
     IN IF ~buildConfig(req.config)
        THEN /\ hResp' = [hResp EXCEPT ![c] =
                            RespondError(400, "Invalid delivery store configuration")]
             /\ hPc' = [hPc EXCEPT ![c] = "done"]
             /\ UNCHANGED hCalls
        ELSE IF MissingOrderFields(req)
        THEN /\ hResp' = [hResp EXCEPT ![c] = RespondError(400, "Missing order fields")]
             /\ hPc' = [hPc EXCEPT ![c] = "done"]
             /\ UNCHANGED hCalls
        ELSE IF NeedsQuotation(req)
        THEN IF env.lalamoveKeys
             THEN /\ hCalls' = [hCalls EXCEPT ![c] =
                                  Append(@, UpstreamCall("GET",
                                                         <<"/quotations", req.quotationId>>,
                                                         NoPayload))]
                  /\ hPc' = [hPc EXCEPT ![c] = "quote"]
                  /\ UNCHANGED hResp
             ELSE /\ hResp' = [hResp EXCEPT ![c] =
                                 RespondError(500, "Failed to fetch quotation for stop IDs")]
                  /\ hPc' = [hPc EXCEPT ![c] = "done"]
                  /\ UNCHANGED hCalls
        ELSE IF env.lalamoveKeys
             THEN /\ hCalls' = [hCalls EXCEPT ![c] =
                                  Append(@, UpstreamCall("POST", <<"/orders">>,
                                                         orderPayload(req, req.senderStopId,
                                                                      req.recipientStopId,
                                                                      Absent)))]
                  /\ hPc' = [hPc EXCEPT ![c] = "order"]
                  /\ UNCHANGED hResp
             ELSE /\ hResp' = [hResp EXCEPT ![c] = Unhandled]
                  /\ hPc' = [hPc EXCEPT ![c] = "done"]
                  /\ UNCHANGED hCalls
  /\ UNCHANGED <<db, env, auxVars, quoteVars, phoneVars, patchVars, taskPc, hBody, hQuote, hNow, upstreamQuote, courierOrders>>

\* lines 254-359 and 361-402: the answer to GET /quotations/{id} arrives;
\* the clock is read, the checks run, and POST /orders is issued or the
\* handler responds with an error
QuoteReturns(c, resp, now) ==
  /\ hPc[c] = "quote"
  /\ hQuote' = [hQuote EXCEPT ![c] = resp]
  /\ hNow' = [hNow EXCEPT ![c] = IF resp.kind = "ok" THEN now ELSE @]
  /\ LET req == hBody[c]
         q == resp.quotation
         verdict == QuotationVerdict(now, q)
     IN IF resp.kind = "http_error"
        THEN /\ hResp' = [hResp EXCEPT ![c] =
                            RespondError(resp.status, "Failed to fetch quotation")]
             /\ hPc' = [hPc EXCEPT ![c] = "done"]
             /\ UNCHANGED hCalls
        ELSE IF resp.kind \in {"not_json", "network_error"}
        THEN /\ hResp' = [hResp EXCEPT ![c] =
                            RespondError(500, "Failed to fetch quotation for stop IDs")]
             /\ hPc' = [hPc EXCEPT ![c] = "done"]
             /\ UNCHANGED hCalls
        ELSE IF verdict # NoResponse
        THEN /\ hResp' = [hResp EXCEPT ![c] = verdict]
             /\ hPc' = [hPc EXCEPT ![c] = "done"]
             /\ UNCHANGED hCalls
        ELSE /\ hCalls' = [hCalls EXCEPT ![c] =
                             Append(@, UpstreamCall("POST", <<"/orders">>,
                                      orderPayload(req, StopIdAt(q.stops, 1),
                                                   StopIdAt(q.stops, 2),
                                                   IF shouldUseScheduleAt(now, q)
                                                   THEN q.scheduleAt ELSE Absent)))]
             /\ hPc' = [hPc EXCEPT ![c] = "order"]
             /\ UNCHANGED hResp
  /\ UNCHANGED <<db, env, auxVars, quoteVars, phoneVars, patchVars, taskPc, hBody, upstreamQuote, courierOrders>>

\* lines 402-412: the answer to POST /orders arrives; a 2xx answer means the
\* upstream created a courier order
OrderReturns(c, resp) ==
  /\ hPc[c] = "order"
  /\ courierOrders' = IF resp.status = 200 THEN courierOrders + 1 ELSE courierOrders
  /\ hResp' = [hResp EXCEPT ![c] =
                 IF resp.kind = "http_error" THEN RespondError(resp.status, "upstream error")
                 ELSE IF resp.kind = "ok" THEN RespondOrder(resp.data)
                 ELSE Unhandled]
  /\ hPc' = [hPc EXCEPT ![c] = "done"]
  /\ UNCHANGED <<db, env, auxVars, quoteVars, phoneVars, patchVars, taskPc, hBody, hCalls, hQuote, hNow, upstreamQuote>>

(***************************************************************************)
(* Specification of the order update with its confirmation trigger.        *)
(***************************************************************************)
\* the quotation obtained at checkout: valid for five more minutes at Now
CheckoutQuotation ==
  Quotation(Iso(Now + 5 * MsPerMinute), Absent,
            <<Stop("S0", Undef), Stop("S1", Undef)>>)

\* clock readings of a handler started by a background task: within the
\* quotation's validity, or after it
TriggerClock == {Now, Now + 10 * MsPerMinute}

\* upstream answers drawn while a background task is being followed
TriggerQuoteResponses ==
  {QuoteResponse("ok", 200, upstreamQuote), QuoteResponse("http_error", 503, NoQuotation)}

TriggerOrderResponses(n) ==
  {resp \in OrderResponses(n) : resp.kind \in {"ok", "http_error"}}

Init ==
  /\ InitIdle
  /\ PhoneIdle
  /\ AuxIdle
  /\ db \in InitialRows
  /\ env \in [anonKey : BOOLEAN, lalamoveKeys : {TRUE}]
  /\ upstreamQuote = CheckoutQuotation

Next ==
  \/ \E r \in Reqs, b \in PatchBodies : PatchStart(r, b)
  \/ \E r \in Reqs, readOk \in BOOLEAN : PatchRead(r, readOk)
  \/ \E r \in Reqs, updateOk \in BOOLEAN : PatchUpdate(r, updateOk)
  \/ \E r \in Reqs : PatchTail(r)
  \/ \E r \in Reqs, settingsOk \in BOOLEAN, configOk \in BOOLEAN :
       TaskSettings(r, settingsOk, configOk, ValidConfig)
  \/ \E r \in Reqs : TaskFetchFails(r)
  \/ \E r \in Reqs : TaskHandlerResponse(r)
  \/ \E r \in Reqs : TaskWrite(r)
  \/ \E r \in Reqs : HandlerReceive(r)
  \/ \E r \in Reqs, resp \in TriggerQuoteResponses, now \in TriggerClock :
       QuoteReturns(r, resp, now)
  \/ \E r \in Reqs, resp \in TriggerOrderResponses(courierOrders + 1) : OrderReturns(r, resp)

Spec == Init /\ [][Next]_vars

(***************************************************************************)
(* Specification of one direct order-handler invocation,                   *)
(* POST /api/lalamove/order, over the request bodies, store configurations *)
(* and upstream quotations of the sets above.                              *)
(***************************************************************************)
DirectRequests ==
  {OrderRequest(q, name, phone, sStop, rStop, cfg, Undef) :
     q \in {"Q1", Undef}, name \in {CustomerName, ""},
     phone \in {ContactNumber, <<>>},
     sStop \in {"SX", Undef}, rStop \in {"RX", Undef}, cfg \in StoreConfigs}

\* the request is sent to the route
DirectInvoke(req) ==
  /\ hPc[Direct] = "idle"
  /\ hPc' = [hPc EXCEPT ![Direct] = "sent"]
  /\ hBody' = [hBody EXCEPT ![Direct] = req]
  /\ UNCHANGED <<db, env, auxVars, quoteVars, phoneVars, patchVars, taskPc, hCalls, hResp, hQuote, hNow,
                 upstreamQuote, courierOrders>>

InitHandler ==
  /\ InitIdle
  /\ PhoneIdle
  /\ AuxIdle
  /\ db = OrderRow("pending", "delivery", "Q1", Null)
  /\ env \in [anonKey : {TRUE}, lalamoveKeys : BOOLEAN]
  /\ upstreamQuote \in Quotations

NextHandler ==
  \/ \E req \in DirectRequests : DirectInvoke(req)
  \/ HandlerReceive(Direct)
  \/ \E resp \in QuoteResponses(upstreamQuote) : QuoteReturns(Direct, resp, Now)
  \/ \E resp \in OrderResponses(courierOrders + 1) : OrderReturns(Direct, resp)

HandlerSpec == InitHandler /\ [][NextHandler]_vars

(***************************************************************************)
(* POST /api/lalamove/quote: POST (lines 421-447) and handleQuote.         *)
(***************************************************************************)
\* the request is sent to the route
QuoteHandlerInvoke(req) ==
  /\ qPc = "idle"
  /\ qPc' = "sent"
  /\ qBody' = req
  /\ UNCHANGED <<db, env, auxVars, patchVars, taskPc, handlerVars, qCalls, qResp, phoneVars>>

\* lines 437-443 and 176-204: buildConfig, the validation, then POST
\* /quotations is issued (proxyRequest throws on a missing key, and neither
\* handleQuote nor POST catches it)
QuoteHandlerReceive ==
  /\ qPc = "sent"
  /\ IF ~buildConfig(qBody.config)
     THEN /\ qResp' = RespondQuoteError(400, "Invalid delivery store configuration")
          /\ qPc' = "done"
          /\ UNCHANGED qCalls
     ELSE IF MissingDeliveryFields(qBody)
     THEN /\ qResp' = RespondQuoteError(400, "Missing delivery fields")
          /\ qPc' = "done"
          /\ UNCHANGED qCalls
     ELSE IF ~env.lalamoveKeys
     THEN /\ qResp' = QuoteUnhandled
          /\ qPc' = "done"
          /\ UNCHANGED qCalls
     ELSE /\ qCalls' = Append(qCalls, UpstreamCall("POST", <<"/quotations">>,
                                                   quotePayload(qBody)))
          /\ qPc' = "quote"
          /\ UNCHANGED qResp
  /\ UNCHANGED <<db, env, auxVars, patchVars, taskPc, handlerVars, qBody, phoneVars>>

\* lines 109-134 and 204-214: the answer to POST /quotations arrives; a
\* non-2xx answer is returned as an error, a 2xx body is parsed (JSON.parse
\* throws on a body that is not JSON; a rejected fetch throws as well)
QuotationsReturns(resp) ==
  /\ qPc = "quote"
  /\ qResp' = IF resp.kind = "http_error"
              THEN RespondQuoteError(respondStatus(proxyError(resp)), proxyError(resp).error)
              ELSE IF resp.kind = "ok" THEN RespondQuote(resp.data)
              ELSE QuoteUnhandled
  /\ qPc' = "done"
  /\ UNCHANGED <<db, env, auxVars, patchVars, taskPc, handlerVars, qBody, qCalls, phoneVars>>

\* market codes: those of the table, one outside it, and one that names an
\* inherited property
QuoteMarkets == DOMAIN LanguageMap \cup {"ZZ", "constructor"}

QuoteConfigs ==
  {[ValidConfig EXCEPT !.market = m, !.sandbox = sb] :
     m \in QuoteMarkets, sb \in BOOLEAN}
  \cup {[ValidConfig EXCEPT !.storeName = ""]}

QuoteRequests ==
  {QuoteRequest(address, lat, lng, cfg) :
     address \in {"", Undef, "12 Rizal St"},
     lat \in {Undef, Null, "abc", "14.5", "Infinity"},
     lng \in {Undef, "121.0", "-Infinity"},
     cfg \in QuoteConfigs}

InitQuote ==
  /\ InitIdle
  /\ PhoneIdle
  /\ AuxIdle
  /\ db = OrderRow("pending", "delivery", "Q1", Null)
  /\ env \in [anonKey : {TRUE}, lalamoveKeys : BOOLEAN]
  /\ upstreamQuote = CheckoutQuotation

NextQuote ==
  \/ \E req \in QuoteRequests : QuoteHandlerInvoke(req)
  \/ QuoteHandlerReceive
  \/ \E resp \in QuotationPostResponses : QuotationsReturns(resp)

QuoteSpec == InitQuote /\ [][NextQuote]_vars

(***************************************************************************)
(* normalizePhone applied to a string, and again to its own result.        *)
(***************************************************************************)
\* longest string drawn from the alphabet
MaxPhoneLen == 4

PhoneChars == {"0", "3", "6", "9", "+", "-"}

RECURSIVE StringsUpTo(_)
StringsUpTo(n) ==
  IF n = 0 THEN {<<>>}
  ELSE LET shorter == StringsUpTo(n - 1)
       IN shorter \cup {Append(w, ch) : w \in shorter, ch \in PhoneChars}

\* the three spellings of one mobile number, and its normal form
PhoneExamples ==
  {<<"0", "9", "1", "7", "1", "2", "3", "4", "5", "6", "7">>,
   <<"6", "3", "9", "1", "7", "1", "2", "3", "4", "5", "6", "7">>,
   <<"9", "1", "7", "1", "2", "3", "4", "5", "6", "7">>}
NormalizedExample ==
  <<"+", "6", "3", "9", "1", "7", "1", "2", "3", "4", "5", "6", "7">>

\* numbers typed with blanks around them, and a blank one
PaddedPhones == {<<" ">>, <<" ", "0", "9", " ">>, <<"9", " ", "3">>}

PhoneInputs ==
  StringsUpTo(MaxPhoneLen) \cup PhoneExamples \cup {NormalizedExample} \cup PaddedPhones

\* normalizePhone is applied to the input, then to its own result
ApplyNormalizePhone ==
  /\ Len(phoneOut) < 2
  /\ phoneOut' = Append(phoneOut,
                        normalizePhone(IF phoneOut = <<>> THEN phoneIn
                                       ELSE phoneOut[Len(phoneOut)]))
  /\ UNCHANGED <<db, env, auxVars, patchVars, taskPc, handlerVars, quoteVars, phoneIn>>

\* the phones along the confirmation path: the task (line 411 of the orders
\* route), createLalamoveOrder (118-119, 160-179), then buildConfig, input
\* validation and the payload of the order handler (137-170, 219-227,
\* 361-377); `contact` is the order's contact_number, `store` the store phone
\* of the site settings
TriggerChain(contact, store) ==
  /\ chainOut.state = "none"
  /\ LET row == [db EXCEPT !.contact_number = contact]
         req == createLalamoveOrderBody(row.lalamove_quotation_id, row.customer_name,
                                        TaskRecipientPhone(row),
                                        [ValidConfig EXCEPT !.storePhone = store],
                                        OrderId)
         payload == orderPayload(req, "S0", "S1", Absent)
     IN chainOut' =
          IF ~buildConfig(req.config) \/ MissingOrderFields(req)
          THEN [NoChain EXCEPT !.state = "rejected", !.contact = contact, !.store = store]
          ELSE [state |-> "posted", contact |-> contact, store |-> store,
                recipient |-> payload.recipientPhone, sender |-> payload.senderPhone]
  /\ UNCHANGED <<db, env, patchVars, taskPc, handlerVars, quoteVars, phoneVars,
                 signIn, signOut, bulkPc, bulkBody, bulkResp,
                 hkClock, hkQuery, hkChanges, hkTimer, hkReqs, hkSuggest>>

InitPhone ==
  /\ InitIdle
  /\ AuxIdle
  /\ db = OrderRow("pending", "delivery", "Q1", Null)
  /\ env = [anonKey |-> TRUE, lalamoveKeys |-> TRUE]
  /\ upstreamQuote = CheckoutQuotation
  /\ phoneIn \in PhoneInputs
  /\ phoneOut = <<>>

NextPhone ==
  \/ ApplyNormalizePhone
  \/ TriggerChain(phoneIn, StorePhone)
  \/ TriggerChain(ContactNumber, phoneIn)

PhoneSpec == InitPhone /\ [][NextPhone]_vars

(***************************************************************************)
(* signPayload (lines 36-50): the request signature.  Strings are          *)
(* sequences of tokens; CRLF is the two-character line break.  HMAC-SHA256 *)
(* and the hex encoding are taken as ideal: the tag names the key and the  *)
(* message it was computed from.                                           *)
(***************************************************************************)
CRLF == "\r\n"
NUL == "\\0"

RECURSIVE hmacKey(_)
\* lines 39-45: importKey('raw', encoder.encode(secret)); HMAC pads a key
\* with zero bytes up to the block size, so trailing zero bytes do not count
hmacKey(secret) ==
  IF secret # <<>> /\ secret[Len(secret)] = NUL
  THEN hmacKey(SubSeq(secret, 1, Len(secret) - 1))
  ELSE secret

\* variant that signs a GET-style message, without the body
signMessageNoBody(timestamp, method, path, payloadText) ==
  timestamp \o <<CRLF>> \o method \o <<CRLF>> \o path \o <<CRLF, CRLF>>

\* line 46: `${timestamp}\r\n${method}\r\n${path}\r\n\r\n${body}`
signMessage(timestamp, method, path, payloadText) ==
  timestamp \o <<CRLF>> \o method \o <<CRLF>> \o path \o <<CRLF, CRLF>> \o payloadText

\* lines 47-48: hex(HMAC-SHA256(key, message))
Hmac(key, message) == [key |-> key, message |-> message]

\* line 37 reads the clock: `timestamp` is that reading, in decimal
signPayload(method, path, payloadText, secret, timestamp) ==
  [timestamp |-> timestamp,
   signature |-> Hmac(hmacKey(secret), signMessage(timestamp, method, path, payloadText))]

\* inputs of a signing operation: clock readings, the two methods of
\* proxyRequest, versioned paths (the quotation id is the caller's and may
\* hold line breaks), bodies, and secrets as an environment variable can
\* hold them (non-empty, no zero byte)
SignInputs ==
  {[timestamp |-> t, method |-> m, path |-> p, body |-> b, secret |-> k] :
     t \in {<<"1">>, <<"1", "0">>},
     m \in {<<"GET">>, <<"POST">>},
     p \in {<<"/v3/orders">>, <<"/v3/quotations/", "Q1">>,
            <<"/v3/quotations/", "Q1", CRLF, CRLF, "{}">>},
     b \in {<<>>, <<"{}">>, <<"{}", CRLF, CRLF>>},
     k \in {<<"s">>, <<"s", "k">>, <<"k">>}}

\* the next of the two signing operations runs
ApplySign ==
  /\ Len(signOut) < Len(signIn)
  /\ LET op == signIn[Len(signOut) + 1]
     IN signOut' = Append(signOut,
                          signPayload(op.method, op.path, op.body, op.secret, op.timestamp))
  /\ UNCHANGED <<db, env, patchVars, taskPc, handlerVars, quoteVars, phoneVars,
                 chainOut, signIn, bulkPc, bulkBody, bulkResp,
                 hkClock, hkQuery, hkChanges, hkTimer, hkReqs, hkSuggest>>

InitSign ==
  /\ InitIdle
  /\ PhoneIdle
  /\ ChainIdle /\ BulkIdle /\ HookIdle
  /\ db = OrderRow("pending", "delivery", "Q1", Null)
  /\ env = [anonKey |-> TRUE, lalamoveKeys |-> TRUE]
  /\ upstreamQuote = CheckoutQuotation
  /\ signIn \in {<<a, b>> : a \in SignInputs, b \in SignInputs}
  /\ signOut = <<>>

SignSpec == InitSign /\ [][ApplySign]_vars

(***************************************************************************)
(* PATCH /api/orders/bulk (app/api/orders/bulk/route.ts): one status for a *)
(* list of order ids.                                                      *)
(***************************************************************************)
\* the `ids` field of a body: absent, a value that is not an array, or an
\* array; NumberId stands for an element that is not a string
NumberId == "<number>"
BulkBodies ==
  {[ids |-> i, status |-> st] :
     i \in {[kind |-> "absent", items |-> <<>>], [kind |-> "string", items |-> <<OrderId>>],
            [kind |-> "array", items |-> <<>>], [kind |-> "array", items |-> <<OrderId>>],
            [kind |-> "array", items |-> <<"order-2">>], [kind |-> "array", items |-> <<"order-2", OrderId>>],
            [kind |-> "array", items |-> <<OrderId, NumberId>>]},
     st \in {Undef, "", "bogus", "pending", "confirmed", "cancelled"}}

\* lines 121-162: the body is read and validated
BulkStart(b) ==
  /\ bulkPc = "idle"
  /\ bulkBody' = b
  /\ IF \/ b.ids.kind # "array" \/ b.ids.items = <<>>
        \/ ~Truthy(b.status)
        \/ b.status \notin validStatuses
        \/ \E i \in 1 .. Len(b.ids.items) : b.ids.items[i] = NumberId
     THEN bulkPc' = "done" /\ bulkResp' = 400
     ELSE bulkPc' = "update" /\ bulkResp' = 0
  /\ UNCHANGED <<db, env, patchVars, taskPc, handlerVars, quoteVars, phoneVars,
                 chainOut, signIn, signOut,
                 hkClock, hkQuery, hkChanges, hkTimer, hkReqs, hkSuggest>>

\* lines 164-192: update({ status }).in('id', ids) lands or fails, and the
\* response is sent; the handler ends here
BulkUpdate(updateOk) ==
  /\ bulkPc = "update"
  /\ bulkPc' = "done"
  /\ IF updateOk
     THEN /\ db' = IF \E i \in 1 .. Len(bulkBody.ids.items) : bulkBody.ids.items[i] = OrderId
                   THEN [db EXCEPT !.status = bulkBody.status]
                   ELSE db
          /\ bulkResp' = 200
     ELSE /\ bulkResp' = 500
          /\ UNCHANGED db
  /\ UNCHANGED <<env, patchVars, taskPc, handlerVars, quoteVars, phoneVars,
                 chainOut, signIn, signOut, bulkBody,
                 hkClock, hkQuery, hkChanges, hkTimer, hkReqs, hkSuggest>>

InitBulk ==
  /\ InitIdle
  /\ PhoneIdle
  /\ ChainIdle /\ SignIdle /\ BulkIdle /\ HookIdle
  /\ db \in InitialRows
  /\ env = [anonKey |-> TRUE, lalamoveKeys |-> TRUE]
  /\ upstreamQuote = CheckoutQuotation

NextBulk ==
  \/ \E b \in BulkBodies : BulkStart(b)
  \/ \E updateOk \in BOOLEAN : BulkUpdate(updateOk)

BulkSpec == InitBulk /\ [][NextBulk]_vars

(***************************************************************************)
(* useAddressAutocomplete (src/hooks/useAddressAutocomplete.ts): the       *)
(* debounced address search.  Time is in milliseconds and advances in      *)
(* steps of TickMs; a request is [query, at, state, aborted, superseded].  *)
(***************************************************************************)
\* granularity and horizon of the clock, and number of query changes followed
TickMs == 250
MaxClockMs == 2000
MaxQueryChanges == 3

\* line 181: the debounce delay
DebounceMs == 500
\* line 172: the shortest query searched for
MinQueryLength == 3
\* line 16: "Maximum 1 request per second"
RateLimitMs == 1000

\* what the user has typed
HookQueries ==
  {<<>>, <<"a", "b">>, <<" ", "a", "b", " ">>, <<"a", "b", "c">>,
   <<"a", "b", "c", "d">>}

TooShort(query) == Len(Trim(query)) < MinQueryLength

\* abortControllerRef.current.abort(): the controller of the latest request
AbortCurrent(reqs) ==
  [i \in 1 .. Len(reqs) |->
     IF i = Len(reqs) THEN [reqs[i] EXCEPT !.aborted = TRUE] ELSE reqs[i]]

\* requests still in flight are from now on answers to an earlier query
Supersede(reqs) ==
  [i \in 1 .. Len(reqs) |->
     IF reqs[i].state = "pending" THEN [reqs[i] EXCEPT !.superseded = TRUE]
     ELSE reqs[i]]

\* lines 165-192: the query changes; the cleanup of the previous effect runs
\* (only an effect that armed a timer returned one), then the effect
HookQueryChange(q) ==
  /\ q # hkQuery
  /\ hkChanges < MaxQueryChanges
  /\ hkQuery' = q
  /\ hkChanges' = hkChanges + 1
  /\ hkReqs' = IF TooShort(hkQuery) THEN Supersede(hkReqs)
               ELSE Supersede(AbortCurrent(hkReqs))
  /\ IF TooShort(q)
     THEN /\ hkTimer' = NoTimer
          /\ hkSuggest' = [by |-> 0, cleared |-> TRUE]
     ELSE /\ hkTimer' = [armed |-> TRUE, query |-> q, at |-> hkClock + DebounceMs]
          /\ UNCHANGED hkSuggest
  /\ UNCHANGED <<db, env, patchVars, taskPc, handlerVars, quoteVars, phoneVars,
                 chainOut, signIn, signOut, bulkPc, bulkBody, bulkResp, hkClock>>

\* time passes
HookTick ==
  /\ hkClock + TickMs <= MaxClockMs
  /\ hkClock' = hkClock + TickMs
  /\ UNCHANGED <<db, env, patchVars, taskPc, handlerVars, quoteVars, phoneVars,
                 chainOut, signIn, signOut, bulkPc, bulkBody, bulkResp,
                 hkQuery, hkChanges, hkTimer, hkReqs, hkSuggest>>

\* lines 179-181 and 27-66: the timer is due and searchAddresses(query) runs:
\* the previous controller is aborted and the request is sent
HookTimerFires ==
  /\ hkTimer.armed
  /\ hkClock >= hkTimer.at
  /\ hkTimer' = NoTimer
  /\ IF Trim(hkTimer.query) = <<>>
     THEN /\ hkSuggest' = [by |-> 0, cleared |-> TRUE]
          /\ UNCHANGED hkReqs
     ELSE /\ hkReqs' = Append(AbortCurrent(hkReqs),
                              [query |-> hkTimer.query, at |-> hkClock,
                               state |-> "pending", aborted |-> FALSE,
                               superseded |-> FALSE])
          /\ UNCHANGED hkSuggest
  /\ UNCHANGED <<db, env, patchVars, taskPc, handlerVars, quoteVars, phoneVars,
                 chainOut, signIn, signOut, bulkPc, bulkBody, bulkResp,
                 hkClock, hkQuery, hkChanges>>

\* lines 68-157: the answer to request i arrives (or the fetch rejects); an
\* aborted request ends without touching the suggestions
HookResponse(i, ok) ==
  /\ i \in 1 .. Len(hkReqs)
  /\ hkReqs[i].state = "pending"
  /\ IF hkReqs[i].aborted
     THEN /\ hkReqs' = [hkReqs EXCEPT ![i].state = "dropped"]
          /\ UNCHANGED hkSuggest
     ELSE /\ hkReqs' = [hkReqs EXCEPT ![i].state = "answered"]
          /\ hkSuggest' = IF ok THEN [by |-> i, cleared |-> FALSE]
                          ELSE [by |-> 0, cleared |-> TRUE]
  /\ UNCHANGED <<db, env, patchVars, taskPc, handlerVars, quoteVars, phoneVars,
                 chainOut, signIn, signOut, bulkPc, bulkBody, bulkResp,
                 hkClock, hkQuery, hkChanges, hkTimer>>

InitHook ==
  /\ InitIdle
  /\ PhoneIdle
  /\ ChainIdle /\ SignIdle /\ BulkIdle /\ HookIdle
  /\ db = OrderRow("pending", "delivery", "Q1", Null)
  /\ env = [anonKey |-> TRUE, lalamoveKeys |-> TRUE]
  /\ upstreamQuote = CheckoutQuotation

NextHook ==
  \/ \E q \in HookQueries : HookQueryChange(q)
  \/ HookTick
  \/ HookTimerFires
  \/ \E i \in 1 .. MaxQueryChanges, ok \in BOOLEAN : HookResponse(i, ok)

HookSpec == InitHook /\ [][NextHook]_vars

(***************************************************************************)
(* Observations used by the properties.                                    *)
(***************************************************************************)
\* background tasks that sent POST /order to the order handler
HandlerInvocations == {r \in Reqs : hPc[r] # "idle"}

\* POST /orders calls an invocation has issued to the upstream
OrdersPosts(c) ==
  Cardinality({i \in 1 .. Len(hCalls[c]) :
                 hCalls[c][i].method = "POST" /\ hCalls[c][i].path = <<"/orders">>})

\* the request has read the current order
HasRead(r) == pc[r] \notin {"idle", "read"}

(***************************************************************************)
(* C1 - for any interleaving of PATCH requests on one order, the           *)
(* confirmation trigger invokes the order handler at most once.            *)
(***************************************************************************)
C1_AtMostOneInvocation == Cardinality(HandlerInvocations) <= 1

(***************************************************************************)
(* C2 - once lalamove_order_id is non-null it never changes: no PATCH      *)
(* request and no background task writes it a second time.                 *)
(***************************************************************************)
C2_OrderIdWrittenOnce ==
  [][Truthy(db.lalamove_order_id) => db'.lalamove_order_id = db.lalamove_order_id]_vars

(***************************************************************************)
(* C3 - a PATCH request that read the current order with a non-empty       *)
(* lalamove_order_id starts no background task and causes no order-handler *)
(* call, whatever status it requests.                                      *)
(***************************************************************************)
C3_NoTaskWhenOrderIdPresent ==
  \A r \in Reqs :
    (HasRead(r) /\ Truthy(cur[r].lalamove_order_id))
      => (~trig[r] /\ taskPc[r] = "none" /\ hPc[r] = "idle" /\ hCalls[r] = <<>>)

\* a finished request that asked for 'confirmed' on a pending delivery order
\* with a quotation and a courier order id already attached
C3_Witness ==
  \E r \in Reqs :
    /\ pc[r] = "done"
    /\ response[r].code = 200
    /\ body[r].status = "confirmed"
    /\ cur[r].status = "pending"
    /\ cur[r].service_type = "delivery"
    /\ Truthy(cur[r].lalamove_quotation_id)
    /\ Truthy(cur[r].lalamove_order_id)

(***************************************************************************)
(* C4 - from a delivery order that is not 'confirmed', has a quotation id  *)
(* and no courier order id, a single PATCH to 'confirmed' with no other    *)
(* request in flight results in exactly one upstream POST /orders call.    *)
(***************************************************************************)
\* request 1 is the only request made; it asked for 'confirmed' on such an
\* order (every initial row is 'pending') and its update succeeded
SingleConfirm ==
  /\ \A r \in Reqs \ {1} : pc[r] = "idle"
  /\ pc[1] = "done"
  /\ response[1].code = 200
  /\ body[1] = PatchBody("confirmed", Undef, Undef, Undef)
  /\ data[1].service_type = "delivery"
  /\ Truthy(data[1].lalamove_quotation_id)
  /\ ~Truthy(data[1].lalamove_order_id)

\* the background task of r has run to its end, or was never started
TaskSettled(r) == taskPc[r] \in {"none", "failed", "persisted"}

\* what the handler's clock and the quotation it received say, stated on the
\* timestamps themselves
FetchedQuotation(c) == hQuote[c].quotation
ExpiredWhenFetched(c) ==
  /\ FetchedQuotation(c).expiresAt.kind = "iso"
  /\ FetchedQuotation(c).expiresAt.ms < hNow[c]
MsPastSchedule(c) == hNow[c] - FetchedQuotation(c).scheduleAt.ms
StaleScheduleWhenFetched(c) ==
  /\ FetchedQuotation(c).scheduleAt.kind = "iso"
  /\ MsPastSchedule(c) > ScheduleToleranceMinutes * MsPerMinute
HasStopId(stops, i) ==
  Len(stops) >= i /\ (Truthy(stops[i].stopId) \/ Truthy(stops[i].id))
BothStopIdsWhenFetched(c) ==
  HasStopId(FetchedQuotation(c).stops, 1) /\ HasStopId(FetchedQuotation(c).stops, 2)
\* the quotation was fetched (2xx, JSON) and passes every check
QuotationAccepted(c) ==
  /\ hQuote[c].kind = "ok"
  /\ ~ExpiredWhenFetched(c)
  /\ ~StaleScheduleWhenFetched(c)
  /\ BothStopIdsWhenFetched(c)

\* the claim as stated, in the runs where the task reached the order
\* handler and the handler received the quotation from the upstream
C4_ExactlyOnePost ==
  (SingleConfirm /\ TaskSettled(1) /\ hQuote[1].kind = "ok") => OrdersPosts(1) = 1

\* amended: at most one POST /orders; exactly one when the task's handler
\* invocation fetched the quotation and accepted it, none otherwise
C4_AtMostOnePost ==
  SingleConfirm =>
    /\ OrdersPosts(1) <= 1
    /\ \A r \in Reqs \ {1} : OrdersPosts(r) = 0
    /\ TaskSettled(1) => (OrdersPosts(1) = 1 <=> QuotationAccepted(1))

C4_Witness == SingleConfirm /\ taskPc[1] = "persisted" /\ OrdersPosts(1) = 1

(***************************************************************************)
(* C5 - the PATCH response never waits on the background task and never    *)
(* depends on it: when the update succeeded the request answers 200 with   *)
(* the updated order in the very step that starts the task, and the        *)
(* response is not touched afterwards, whatever the task does.             *)
(***************************************************************************)
C5_ResponseIndependentOfTask ==
  [][\A r \in Reqs :
       /\ (pc[r] = "updated" /\ (pc'[r] # pc[r] \/ taskPc'[r] # taskPc[r]))
            => (pc'[r] = "done" /\ response'[r] = [code |-> 200, order |-> data[r]])
       /\ pc[r] = "done" => response'[r] = response[r]]_vars

\* a request has answered 200 while its task is still waiting for the handler
C5_Witness ==
  \E r \in Reqs :
    /\ pc[r] = "done"
    /\ response[r].code = 200
    /\ response[r].order.status = "confirmed"
    /\ taskPc[r] = "awaitHandler"

(***************************************************************************)
(* C6 - the background task never writes the order's status: a step of the *)
(* task or of its handler invocation leaves the row unchanged unless it is *)
(* the final write, and that write changes only lalamove_order_id,         *)
(* lalamove_status and lalamove_tracking_url.                              *)
(***************************************************************************)
CourierFields == {"lalamove_order_id", "lalamove_status", "lalamove_tracking_url"}

C6_TaskWritesOnlyCourierFields ==
  [][\A r \in Reqs :
       ((taskPc[r] # "none" /\ taskPc'[r] # taskPc[r]) \/ hPc'[r] # hPc[r])
         => /\ \A f \in DOMAIN db \ CourierFields : db'[f] = db[f]
            /\ taskPc'[r] # "persisted" => db' = db]_vars

\* a task has failed after its handler answered: the order is 'confirmed'
\* with no courier order
C6_Witness ==
  \E r \in Reqs :
    /\ taskPc[r] = "failed"
    /\ hPc[r] = "done"
    /\ db.status = "confirmed"
    /\ db.lalamove_order_id = Null

(***************************************************************************)
(* C7 - if the order-handler call made by the background task returns      *)
(* success, then eventually the order record holds the returned orderId,   *)
(* status and shareLink.                                                   *)
(***************************************************************************)
\* the event loop runs a continuation whose awaited result has arrived
LiveSpec ==
  /\ Init
  /\ [][Next]_vars
  /\ \A r \in Reqs : WF_vars(TaskHandlerResponse(r)) /\ WF_vars(TaskWrite(r))

HandlerSucceeded(r) ==
  taskPc[r] = "awaitHandler" /\ hPc[r] = "done" /\ hResp[r].status = 200

\* the row holds what the handler returned (a field the response lacks has
\* no value to hold)
RecordHolds(r) ==
  LET d == hResp[r].data
  IN /\ d.orderId # Undef => db.lalamove_order_id = d.orderId
     /\ db.lalamove_status = d.status
     /\ d.shareLink # Undef => db.lalamove_tracking_url = d.shareLink

RequiredFieldsGiven(c) ==
  /\ hPc[c] \notin {"idle", "sent", "unreached"}
  /\ Truthy(hBody[c].quotationId)
  /\ Truthy(hBody[c].recipientName)
  /\ hBody[c].recipientPhone # <<>>

\* the quotation the upstream holds expired before the handler's clock
UpstreamQuotationExpired ==
  upstreamQuote.expiresAt.kind = "iso" /\ upstreamQuote.expiresAt.ms < Now

ScheduleRecentlyPast(c) ==
  /\ FetchedQuotation(c).scheduleAt.kind = "iso"
  /\ MsPastSchedule(c) > 0
  /\ MsPastSchedule(c) <= ScheduleToleranceMinutes * MsPerMinute

\* the invocation issued GET /quotations/{id} and then POST /orders
PostedAfterFetch(c) ==
  /\ Len(hCalls[c]) = 2
  /\ hCalls[c][1].method = "GET"
  /\ hCalls[c][2].method = "POST"
  /\ hCalls[c][2].path = <<"/orders">>

C9_RecentScheduleIsImmediate ==
  \A c \in Callers :
    (/\ hQuote[c].kind = "ok"
     /\ ScheduleRecentlyPast(c)
     /\ ~ExpiredWhenFetched(c)
     /\ BothStopIdsWhenFetched(c))
      => /\ PostedAfterFetch(c)
         /\ hCalls[c][2].payload.scheduleAt = Absent

\* scheduleAt exactly 10 minutes in the past, order posted without it
C9_Witness ==
  /\ hQuote[Direct].kind = "ok"
  /\ MsPastSchedule(Direct) = ScheduleToleranceMinutes * MsPerMinute
  /\ FetchedQuotation(Direct).scheduleAt.kind = "iso"
  /\ PostedAfterFetch(Direct)
  /\ hCalls[Direct][2].payload.scheduleAt = Absent
  /\ hPc[Direct] = "done"
  /\ hResp[Direct].status = 200

(***************************************************************************)
(* C10 - when the fetched quotation's scheduleAt is more than 10 minutes   *)
(* in the past the handler returns a 400 error and issues no POST /orders. *)
(***************************************************************************)
C10_StaleScheduleRejected ==
  \A c \in Callers :
    (hQuote[c].kind = "ok" /\ StaleScheduleWhenFetched(c))
      => /\ hPc[c] = "done"
         /\ hResp[c].status = 400
         /\ OrdersPosts(c) = 0

\* a quotation that is not expired and has both stop ids, rejected for its
\* schedule alone
C10_Witness ==
  /\ hQuote[Direct].kind = "ok"
  /\ StaleScheduleWhenFetched(Direct)
  /\ ~ExpiredWhenFetched(Direct)
  /\ BothStopIdsWhenFetched(Direct)
  /\ hPc[Direct] = "done"
  /\ hResp[Direct].error = "Quotation schedule time is too far in the past"

(***************************************************************************)
(* C11 - a quote request with a valid store configuration and an empty     *)
(* deliveryAddress gets a 400 response and no outbound call is made.       *)
(***************************************************************************)
\* the request has reached the route
QuoteReceived == qPc \notin {"idle", "sent"}

C11_EmptyAddressRejected ==
  (QuoteReceived /\ buildConfig(qBody.config) /\ qBody.deliveryAddress = "")
    => /\ qPc = "done"
       /\ qResp.status = 400
       /\ qCalls = <<>>

\* the address is the only thing wrong with the request
C11_Witness ==
  /\ qPc = "done"
  /\ buildConfig(qBody.config)
  /\ env.lalamoveKeys
  /\ qBody.deliveryAddress = ""
  /\ qBody.deliveryLat = "14.5"
  /\ qBody.deliveryLng = "121.0"
  /\ qResp = RespondQuoteError(400, "Missing delivery fields")

(***************************************************************************)
(* C12 - a quote request whose deliveryLat or deliveryLng is not a finite  *)
(* number (missing, non-numeric, NaN or infinite) gets a 400 response and  *)
(* no outbound call is made.                                               *)
(***************************************************************************)
NotFiniteCoordinate(req) ==
  ~IsFinite(ToNumber(req.deliveryLat)) \/ ~IsFinite(ToNumber(req.deliveryLng))

\* stated for a deployment whose upstream keys are set
C12_NonFiniteRejected ==
  (QuoteReceived /\ buildConfig(qBody.config) /\ env.lalamoveKeys
     /\ NotFiniteCoordinate(qBody))
    => /\ qPc = "done"
       /\ qResp.status = 400
       /\ qCalls = <<>>

(***************************************************************************)
(* C13 - an order-handler invocation in which quotationId, recipientName   *)
(* or recipientPhone is missing or empty gets a 400 response and issues no *)
(* upstream call.                                                          *)
(***************************************************************************)
\* the invocation has reached the route
OrderReceived(c) == hPc[c] \notin {"idle", "sent", "unreached"}

RequiredFieldMissing(req) ==
  \/ req.quotationId \in {Undef, Null, ""}
  \/ req.recipientName \in {Undef, Null, ""}
  \/ req.recipientPhone = <<>>

C13_MissingFieldsRejected ==
  \A c \in Callers :
    (OrderReceived(c) /\ RequiredFieldMissing(hBody[c]))
      => /\ hPc[c] = "done"
         /\ hResp[c].status = 400
         /\ hCalls[c] = <<>>

\* only the recipient's phone is missing
C13_Witness ==
  /\ hPc[Direct] = "done"
  /\ buildConfig(hBody[Direct].config)
  /\ env.lalamoveKeys
  /\ Truthy(hBody[Direct].quotationId)
  /\ Truthy(hBody[Direct].recipientName)
  /\ hBody[Direct].recipientPhone = <<>>
  /\ hResp[Direct] = RespondError(400, "Missing order fields")

(***************************************************************************)
(* C14 - normalizePhone is idempotent on every string that contains a      *)
(* digit, and an already normalized +63 number is returned unchanged.      *)
(***************************************************************************)
HasDigit(s) == \E i \in 1 .. Len(s) : s[i] \in Digits

C14_NormalizeIdempotent ==
  /\ (Len(phoneOut) = 2 /\ HasDigit(phoneIn)) => phoneOut[2] = phoneOut[1]
  /\ (Len(phoneOut) >= 1 /\ phoneIn = NormalizedExample) => phoneOut[1] = phoneIn

\* a number typed with its trunk prefix, normalized twice
C14_Witness ==
  /\ Len(phoneOut) = 2
  /\ phoneIn = <<"0", "9", "-", "3">>
  /\ phoneOut[1] = <<"+", "6", "3", "9", "3">>
  /\ phoneOut[2] = phoneOut[1]

(***************************************************************************)
(* C15 - normalizePhone strips the non-digits and returns the input        *)
(* unchanged when no digit remains, '+' and the digits when they start     *)
(* with 63, '+63' and the digits without their leading 0 when they start   *)
(* with 0, '+63' and the digits otherwise; the three spellings of          *)
(* 9171234567 all give +639171234567.                                      *)
(***************************************************************************)
IsDigitChar(ch) == ch \in Digits

\* the result the statement prescribes
PrescribedPhone(s) ==
  LET digits == SelectSeq(s, IsDigitChar)
  IN IF digits = <<>> THEN s
     ELSE IF Len(digits) >= 2 /\ digits[1] = "6" /\ digits[2] = "3"
          THEN <<"+">> \o digits
     ELSE IF digits[1] = "0"
          THEN <<"+", "6", "3">> \o SubSeq(digits, 2, Len(digits))
     ELSE <<"+", "6", "3">> \o digits

C15_NormalizeAsPrescribed ==
  Len(phoneOut) >= 1
    => /\ phoneOut[1] = PrescribedPhone(phoneIn)
       /\ phoneIn \in PhoneExamples => phoneOut[1] = NormalizedExample

C15_Witness ==
  /\ Len(phoneOut) = 1
  /\ phoneIn = <<"0", "9", "1", "7", "1", "2", "3", "4", "5", "6", "7">>
  /\ phoneOut[1] = NormalizedExample

(***************************************************************************)
(* C16 - for every upstream call the signed path equals the path component *)
(* of the URL requested (both are /v3 followed by the call's path), the    *)
(* signed method equals the method sent and the signed body equals the     *)
(* body sent (empty for GET).                                              *)
(***************************************************************************)
SignedAsSent(call, sandbox) ==
  LET w == proxyRequestWire(call, sandbox)
  IN /\ w.signed.path = UrlPath(w.sent.url)
     /\ w.signed.path = <<"/v3">> \o call.path
     /\ w.signed.method = w.sent.method
     /\ w.signed.body = w.sent.body
     /\ call.method = "GET" => w.sent.body = <<>>
     /\ call.method # "GET" => w.sent.body = <<call.payload>>

C16_SignedAsSent ==
  \A c \in Callers :
    \A i \in 1 .. Len(hCalls[c]) : SignedAsSent(hCalls[c][i], hBody[c].config.sandbox)

\* a production invocation that issued the GET and then the POST
C16_Witness ==
  /\ ~hBody[Direct].config.sandbox
  /\ Len(hCalls[Direct]) = 2
  /\ hCalls[Direct][1].method = "GET"
  /\ hCalls[Direct][2].method = "POST"
  /\ proxyRequestWire(hCalls[Direct][1], FALSE).sent.url
       = <<"https://rest.lalamove.com", "/v3", "/quotations", "Q1">>
  /\ proxyRequestWire(hCalls[Direct][2], FALSE).signed.path = <<"/v3", "/orders">>

(***************************************************************************)
(* C17 - every failure path of the handlers ends in a structured error     *)
(* response, never in an exception escaping the handler; this includes a   *)
(* 2xx upstream answer whose body is not JSON.                             *)
(***************************************************************************)
\* stated for the order handler in a deployment whose upstream keys are set
C17_NoEscapingException ==
  \A c \in Callers :
    (env.lalamoveKeys /\ hPc[c] = "done") => hResp[c] # Unhandled

(***************************************************************************)
(* C18 - when the upstream answers with a non-2xx status the handler's     *)
(* response status is the upstream's if that is a 4xx and is a 5xx         *)
(* otherwise.                                                              *)
(***************************************************************************)
\* stated for the quote handler: an error response after POST /quotations
\* was issued is a 4xx or a 5xx
C18_ErrorStatusIs4xxOr5xx ==
  (qPc = "done" /\ qCalls # <<>> /\ qResp.status # 200)
    => qResp.status \in 400 .. 599

(***************************************************************************)
(* C19 - the language tag sent in a quotation request is that of the table *)
(* for a market code of the table and en_US for every other market code.   *)
(***************************************************************************)
\* the table as the statement gives it
TabledLanguage(market) ==
  CASE market = "HK" -> "en_HK"
    [] market = "SG" -> "en_SG"
    [] market = "TH" -> "th_TH"
    [] market = "PH" -> "en_PH"
    [] market = "TW" -> "zh_TW"
    [] market = "MY" -> "ms_MY"
    [] market = "VN" -> "vi_VN"
    [] OTHER -> "en_US"

C19_LanguageByTable ==
  \A i \in 1 .. Len(qCalls) :
    qCalls[i].payload.language = TabledLanguage(qBody.config.market)

(***************************************************************************)
(* C20 - when the fetched quotation does not yield both stop ids the order *)
(* handler fails with a 400 response and issues no POST /orders.           *)
(***************************************************************************)
C20_MissingStopIdsAre400 ==
  \A c \in Callers :
    (hQuote[c].kind = "ok" /\ ~BothStopIdsWhenFetched(c))
      => /\ hPc[c] = "done"
         /\ hResp[c].status = 400
         /\ OrdersPosts(c) = 0

(***************************************************************************)
(* C22 - one order-handler invocation is linear, without retries: at most  *)
(* one GET /quotations/{id} and at most one POST /orders, the GET before   *)
(* the POST; the POST only after input validation and, when the quotation  *)
(* is fetched, after the expiry check, the schedule check and the stop-id  *)
(* resolution have passed; no upstream call follows a failed step.         *)
(***************************************************************************)
\* GET /quotations/{id} calls an invocation has issued to the upstream
QuotationGets(c) ==
  Cardinality({i \in 1 .. Len(hCalls[c]) : hCalls[c][i].method = "GET"})

\* the shapes the sequence of upstream calls of one invocation can take
LinearCalls(c) ==
  /\ Len(hCalls[c]) <= 2
  /\ QuotationGets(c) <= 1
  /\ OrdersPosts(c) <= 1
  /\ Len(hCalls[c]) = 2 => hCalls[c][1].method = "GET" /\ hCalls[c][2].method = "POST"

StopIdAbsent(req) ==
  req.senderStopId \in {Undef, Null, ""} \/ req.recipientStopId \in {Undef, Null, ""}

\* handleOrder has passed input validation and can reach the upstream
ReachesStopIdResolution(c) ==
  /\ OrderReceived(c)
  /\ buildConfig(hBody[c].config)
  /\ ~RequiredFieldMissing(hBody[c])
  /\ env.lalamoveKeys

C23_FetchIffStopIdAbsent ==
  \A c \in Callers :
    /\ QuotationGets(c) >= 1 =>
         /\ StopIdAbsent(hBody[c])
         /\ hCalls[c][1] =
              UpstreamCall("GET", <<"/quotations", hBody[c].quotationId>>, NoPayload)
    /\ ReachesStopIdResolution(c) =>
         /\ QuotationGets(c) = 1 <=> StopIdAbsent(hBody[c])
         /\ ~StopIdAbsent(hBody[c]) =>
              /\ Len(hCalls[c]) = 1
              /\ hCalls[c][1].method = "POST"
              /\ hCalls[c][1].payload.senderStopId = hBody[c].senderStopId
              /\ hCalls[c][1].payload.recipientStopId = hBody[c].recipientStopId
    /\ hQuote[c].kind = "http_error" =>
         /\ hPc[c] = "done"
         /\ hResp[c].status = hQuote[c].status
         /\ OrdersPosts(c) = 0

\* only the recipient's stop id is absent and the fetch answers 404
C23_Witness ==
  /\ ReachesStopIdResolution(Direct)
  /\ Truthy(hBody[Direct].senderStopId)
  /\ ~Truthy(hBody[Direct].recipientStopId)
  /\ hQuote[Direct] = QuoteResponse("http_error", 404, NoQuotation)
  /\ hResp[Direct].status = 404
  /\ hCalls[Direct] = <<UpstreamCall("GET", <<"/quotations", "Q1">>, NoPayload)>>

(***************************************************************************)
(* C24 - a fetched quotation passes the expiration check only inside its   *)
(* validity window [now, expiresAt): it is accepted when now is strictly   *)
(* before expiresAt and rejected as expired when now equals or is later    *)
(* than expiresAt.                                                         *)
(***************************************************************************)
RejectedAsExpired(c) ==
  /\ hPc[c] = "done"
  /\ hResp[c] = RespondError(400, "Quotation has expired")
  /\ OrdersPosts(c) = 0

C24_ValidityWindowHalfOpen ==
  \A c \in Callers :
    (hQuote[c].kind = "ok" /\ FetchedQuotation(c).expiresAt.kind = "iso") =>
      /\ hNow[c] < FetchedQuotation(c).expiresAt.ms => ~RejectedAsExpired(c)
      /\ hNow[c] >= FetchedQuotation(c).expiresAt.ms => RejectedAsExpired(c)

(***************************************************************************)
(* C25 - the /orders payload carries scheduleAt if and only if the         *)
(* quotation was fetched in this invocation and its scheduleAt is after    *)
(* now; the forwarded value is then the quotation's scheduleAt, also when  *)
(* it is more than 24 hours ahead, which is never a failure.               *)
(***************************************************************************)
\* the /orders payloads an invocation has sent
OrdersPayloads(c) ==
  {hCalls[c][i].payload : i \in {j \in 1 .. Len(hCalls[c]) : hCalls[c][j].method = "POST"}}

ScheduleInFuture(c) ==
  /\ hQuote[c].kind = "ok"
  /\ FetchedQuotation(c).scheduleAt.kind = "iso"
  /\ FetchedQuotation(c).scheduleAt.ms > hNow[c]

C25_ScheduleForwardedIffFuture ==
  \A c \in Callers :
    /\ \A p \in OrdersPayloads(c) :
         /\ p.scheduleAt # Absent <=> ScheduleInFuture(c)
         /\ ScheduleInFuture(c) => p.scheduleAt = FetchedQuotation(c).scheduleAt
    /\ (/\ ScheduleInFuture(c)
        /\ FetchedQuotation(c).scheduleAt.ms > hNow[c] + ScheduleWarnHours * MsPerHour
        /\ ~ExpiredWhenFetched(c)
        /\ BothStopIdsWhenFetched(c)) => OrdersPosts(c) = 1

(***************************************************************************)
(* C27 - a PATCH with status 'confirmed' that reads an order already       *)
(* 'confirmed', as it is after a failed background task (quotation id set, *)
(* no courier order id), starts no order-creation task; a task is started  *)
(* only by a PATCH to 'confirmed' that read another current status, and a  *)
(* failed task is never started again.                                     *)
(***************************************************************************)
C27_NoSameStatusRetry ==
  /\ [](\A r \in Reqs :
          /\ (HasRead(r) /\ cur[r].status = "confirmed") =>
               (~trig[r] /\ taskPc[r] = "none" /\ hPc[r] = "idle")
          /\ taskPc[r] # "none" =>
               /\ HasRead(r)
               /\ body[r].status = "confirmed"
               /\ cur[r].status # "confirmed")
  /\ [][\A r \in Reqs :
          taskPc[r] = "failed" =>
            (taskPc'[r] = "failed" /\ hPc'[r] = hPc[r] /\ hCalls'[r] = hCalls[r])]_vars

\* request 1's task failed; request 2 asked for 'confirmed', read the order
\* as that task left it, and ended without a task
C27_Witness ==
  /\ taskPc[1] = "failed"
  /\ pc[2] = "done"
  /\ response[2].code = 200
  /\ body[2].status = "confirmed"
  /\ cur[2].status = "confirmed"
  /\ cur[2].service_type = "delivery"
  /\ Truthy(cur[2].lalamove_quotation_id)
  /\ ~Truthy(cur[2].lalamove_order_id)
  /\ taskPc[2] = "none"
  /\ ~Truthy(db.lalamove_order_id)

(***************************************************************************)
(* C29 - the background task persists courier fields only for a response   *)
(* that carries a non-empty courier order id: a 2xx order-handler response *)
(* without orderId is treated as "not created" and nothing is written, so  *)
(* a recorded success always closes the trigger's guard.                   *)
(***************************************************************************)
\* the task of request r has issued (or is about to issue) its update
TaskPersists(r) == taskPc[r] \in {"write", "persisted"}

C29_PersistsOnlyWithOrderId ==
  \A r \in Reqs :
    /\ TaskPersists(r) => Truthy(hResp[r].data.orderId)
    /\ (taskPc[r] = "persisted" /\ \A q \in Reqs : q # r => pc[q] = "idle") =>
         Truthy(db.lalamove_order_id)

(***************************************************************************)
(* C28 - on the confirmation path the recipient phone goes through         *)
(* normalizePhoneNumber (PATCH handler), normalizePhone (createLalamoveOrder) *)
(* and normalizePhone (order handler); every non-empty contact_number      *)
(* reaches the upstream, the recipient phone of the /orders payload is one *)
(* application of normalizePhone to it, and the sender phone is one        *)
(* application of normalizePhone to the store phone.                       *)
(***************************************************************************)
C28_ChainIsOneNormalization ==
  /\ chainOut.state = "posted" =>
       /\ chainOut.recipient = normalizePhone(chainOut.contact)
       /\ chainOut.sender = normalizePhone(chainOut.store)
  /\ chainOut.state # "none" =>
       (chainOut.state = "posted" <=> (chainOut.contact # <<>> /\ chainOut.store # <<>>))

\* a number typed with its trunk prefix and blanks, sent on to the upstream
C28_Witness ==
  /\ chainOut.state = "posted"
  /\ chainOut.contact = <<" ", "0", "9", " ">>
  /\ chainOut.recipient = <<"+", "6", "3", "9">>
  /\ chainOut.sender = <<"+", "6", "3", "2">>

(***************************************************************************)
(* C21 - the signer is deterministic and input-sensitive: two signing      *)
(* operations with the same method, path, body, secret and timestamp give  *)
(* the same signature, and two that differ in one of these inputs give     *)
(* different signatures.                                                   *)
(***************************************************************************)
SignFields == {"timestamp", "method", "path", "body", "secret"}
DifferingFields(a, b) == {f \in SignFields : a[f] # b[f]}

BulkConfirmed ==
  /\ bulkPc = "done"
  /\ bulkResp = 200
  /\ bulkBody.status = "confirmed"
  /\ \E i \in 1 .. Len(bulkBody.ids.items) : bulkBody.ids.items[i] = OrderId
  /\ db.status = "confirmed"

CourierOrderAttempted ==
  \E r \in Reqs : taskPc[r] # "none" \/ hPc[r] # "idle" \/ hCalls[r] # <<>>

C26_BulkConfirmInvokesHandler ==
  (/\ BulkConfirmed
   /\ db.service_type = "delivery"
   /\ Truthy(db.lalamove_quotation_id)
   /\ ~Truthy(db.lalamove_order_id)) => CourierOrderAttempted

(***************************************************************************)
(* C30 - for any sequence of query changes the address-autocomplete hook   *)
(* issues at most one search request per second, no request for a query    *)
(* shorter than 3 characters, and a response to a request superseded by a  *)
(* later query change never sets the suggestions.                          *)
(***************************************************************************)
OneRequestPerSecond ==
  \A i, j \in 1 .. Len(hkReqs) : i < j => hkReqs[j].at - hkReqs[i].at >= RateLimitMs

NoShortQueryRequested ==
  \A i \in 1 .. Len(hkReqs) : Len(Trim(hkReqs[i].query)) >= MinQueryLength

SupersededNeverSets ==
  \A i \in 1 .. Len(hkReqs) : hkReqs[i].superseded => hkReqs[i].state # "answered"

C30_AutocompleteRespectsRateLimit ==
  /\ OneRequestPerSecond
  /\ NoShortQueryRequested
  /\ SupersededNeverSets

====
